---- MODULE Spec2Model ----
(***************************************************************************)
(* Model of the Vertex AI client of pdf-extractor-pro-worker               *)
(* (src/src/vertexAi.js): getAccessToken, extractFromPdf, chatWithGemini   *)
(* and the response normalizer parseResponse.                              *)
(*                                                                         *)
(* A JavaScript string is a sequence of one-character strings.  A JSON     *)
(* value is a record [t, s, ks, c]: t is the kind ("arr", "obj", "str",    *)
(* "num", "bool", "null"); s holds the characters of a string or the       *)
(* lexeme of a number or literal; c holds the elements of an array or the  *)
(* property values of an object and ks the property names, in insertion    *)
(* order (ks[i] names c[i]).                                               *)
(***************************************************************************)
EXTENDS Integers, Sequences, FiniteSets, TLC

(***************************************************************************)
(* String primitives of the runtime used by parseResponse.                 *)
(***************************************************************************)
Ws == {" ", "\n", "\t", "\r"}

Digits == {"0", "1", "2", "3", "4", "5", "6", "7", "8", "9"}

MinOf(S) == CHOOSE i \in S : \A j \in S : i <= j

MaxOf(S) == CHOOSE i \in S : \A j \in S : j <= i

Range(s) == {s[i] : i \in 1..Len(s)}

\* first index >= i that is past the end or holds a non-whitespace character
SkipWs(s, i) == MinOf({j \in i..(Len(s) + 1) : j > Len(s) \/ s[j] \notin Ws})

\* String.prototype.trim
trim(s) ==
    LET keep == {i \in 1..Len(s) : s[i] \notin Ws}
    IN  IF keep = {} THEN <<>> ELSE SubSeq(s, MinOf(keep), MaxOf(keep))

\* pat occurs in s at (1-based) index i
StartsAt(s, i, pat) ==
    /\ i >= 1
    /\ i + Len(pat) - 1 <= Len(s)
    /\ \A k \in 1..Len(pat) : s[i + k - 1] = pat[k]

\* String.prototype.includes
includes(s, pat) == \E i \in 1..(Len(s) + 1) : StartsAt(s, i, pat)

\* String.prototype.startsWith / endsWith
startsWith(s, pat) == StartsAt(s, 1, pat)

endsWith(s, pat) == StartsAt(s, Len(s) - Len(pat) + 1, pat)

\* String.prototype.lastIndexOf for a one-character pattern, 1-based, 0 = not found (-1 in JS)
lastIndexOf(s, c) ==
    LET at == {i \in 1..Len(s) : s[i] = c}
    IN  IF at = {} THEN 0 ELSE MaxOf(at)

\* substring0 without the cut: the whole string
substring0_Whole(s, n) == s

\* String.prototype.substring(0, n)
substring0(s, n) == SubSeq(s, 1, IF Len(s) < n THEN Len(s) ELSE n)

LowerChar(c) ==
    CASE c = "A" -> "a" [] c = "B" -> "b" [] c = "C" -> "c" [] c = "D" -> "d" [] c = "E" -> "e" [] c = "F" -> "f"
      [] c = "G" -> "g" [] c = "H" -> "h" [] c = "I" -> "i" [] c = "J" -> "j" [] c = "K" -> "k" [] c = "L" -> "l"
      [] c = "M" -> "m" [] c = "N" -> "n" [] c = "O" -> "o" [] c = "P" -> "p" [] c = "Q" -> "q" [] c = "R" -> "r"
      [] c = "S" -> "s" [] c = "T" -> "t" [] c = "U" -> "u" [] c = "V" -> "v" [] c = "W" -> "w" [] c = "X" -> "x"
      [] c = "Y" -> "y" [] c = "Z" -> "z"
      [] OTHER -> c

\* String.prototype.toLowerCase
toLowerCase(s) == [i \in 1..Len(s) |-> LowerChar(s[i])]

\* String.prototype.split for a one-character separator
RECURSIVE SplitFrom(_, _, _)
SplitFrom(s, c, from) ==
    LET at == {i \in from..Len(s) : s[i] = c}
    IN  IF at = {} THEN <<SubSeq(s, from, Len(s))>>
        ELSE <<SubSeq(s, from, MinOf(at) - 1)>> \o SplitFrom(s, c, MinOf(at) + 1)

split(s, c) == SplitFrom(s, c, 1)

(***************************************************************************)
(* JSON.parse.  Grammar covered: arrays, objects, strings with the escapes *)
(* \" \\ \/ \n \t \r, non-negative decimal numbers, true, false, null,     *)
(* whitespace.  A parser result is [ok, v, n]: n is the index after the    *)
(* value.                                                                  *)
(***************************************************************************)
NullV == [t |-> "null", s |-> <<"n", "u", "l", "l">>, ks |-> <<>>, c |-> <<>>]

TrueV == [t |-> "bool", s |-> <<"t", "r", "u", "e">>, ks |-> <<>>, c |-> <<>>]

FalseV == [t |-> "bool", s |-> <<"f", "a", "l", "s", "e">>, ks |-> <<>>, c |-> <<>>]

StrV(chars) == [t |-> "str", s |-> chars, ks |-> <<>>, c |-> <<>>]

NumV(lexeme) == [t |-> "num", s |-> lexeme, ks |-> <<>>, c |-> <<>>]

ArrV(elems) == [t |-> "arr", s |-> <<>>, ks |-> <<>>, c |-> elems]

ObjV(keys, vals) == [t |-> "obj", s |-> <<>>, ks |-> keys, c |-> vals]

EmptyObj == ObjV(<<>>, <<>>)

PFail == [ok |-> FALSE, v |-> NullV, n |-> 0]

POk(val, next) == [ok |-> TRUE, v |-> val, n |-> next]

\* obj[key] = val on an insertion-ordered object: an existing key keeps its place
ObjSet(obj, key, val) ==
    IF \E i \in 1..Len(obj.ks) : obj.ks[i] = key
    THEN [obj EXCEPT !.c = [i \in 1..Len(obj.c) |-> IF obj.ks[i] = key THEN val ELSE obj.c[i]]]
    ELSE [obj EXCEPT !.ks = Append(obj.ks, key), !.c = Append(obj.c, val)]

HasKey(val, key) == val.t = "obj" /\ \E i \in 1..Len(val.ks) : val.ks[i] = key

\* obj[key] for a key the object has
ObjGet(obj, key) == obj.c[CHOOSE i \in 1..Len(obj.ks) : obj.ks[i] = key]

\* the characters of a string literal from index i (after the opening quote)
RECURSIVE ParseStr(_, _, _)
ParseStr(s, i, acc) ==
    IF i > Len(s) THEN [ok |-> FALSE, v |-> <<>>, n |-> 0]
    ELSE IF s[i] = "\"" THEN [ok |-> TRUE, v |-> acc, n |-> i + 1]
    ELSE IF s[i] = "\\" THEN
        IF i + 1 > Len(s) THEN [ok |-> FALSE, v |-> <<>>, n |-> 0]
        ELSE IF s[i + 1] \in {"\"", "\\", "/"} THEN ParseStr(s, i + 2, Append(acc, s[i + 1]))
        ELSE IF s[i + 1] = "n" THEN ParseStr(s, i + 2, Append(acc, "\n"))
        ELSE IF s[i + 1] = "t" THEN ParseStr(s, i + 2, Append(acc, "\t"))
        ELSE IF s[i + 1] = "r" THEN ParseStr(s, i + 2, Append(acc, "\r"))
        ELSE [ok |-> FALSE, v |-> <<>>, n |-> 0]
    ELSE IF s[i] \in {"\n", "\t", "\r"} THEN [ok |-> FALSE, v |-> <<>>, n |-> 0]
    ELSE ParseStr(s, i + 1, Append(acc, s[i]))

\* first index >= i that is past the end or holds a non-digit
SkipDigits(s, i) == MinOf({j \in i..(Len(s) + 1) : j > Len(s) \/ s[j] \notin Digits})

\* a number starting at the digit s[i]: int part without leading zero, optional fraction
ParseNum(s, i) ==
    LET e == IF s[i] = "0" THEN i + 1 ELSE SkipDigits(s, i)
        f == IF e <= Len(s) /\ s[e] = "." THEN SkipDigits(s, e + 1) ELSE e
    IN  IF e <= Len(s) /\ s[e] = "." /\ f = e + 1 THEN PFail
        ELSE POk(NumV(SubSeq(s, i, f - 1)), f)

RECURSIVE ParseValue(_, _), ParseElems(_, _, _), ParseMembers(_, _, _)
ParseValue(s, i) ==
    LET j == SkipWs(s, i)
    IN  IF j > Len(s) THEN PFail
        ELSE IF s[j] = "[" THEN
            (IF SkipWs(s, j + 1) <= Len(s) /\ s[SkipWs(s, j + 1)] = "]"
             THEN POk(ArrV(<<>>), SkipWs(s, j + 1) + 1)
             ELSE ParseElems(s, j + 1, <<>>))
        ELSE IF s[j] = "{" THEN
            (IF SkipWs(s, j + 1) <= Len(s) /\ s[SkipWs(s, j + 1)] = "}"
             THEN POk(EmptyObj, SkipWs(s, j + 1) + 1)
             ELSE ParseMembers(s, j + 1, EmptyObj))
        ELSE IF s[j] = "\"" THEN
            (LET r == ParseStr(s, j + 1, <<>>)
             IN  IF r.ok THEN POk(StrV(r.v), r.n) ELSE PFail)
        ELSE IF s[j] \in Digits THEN ParseNum(s, j)
        ELSE IF StartsAt(s, j, TrueV.s) THEN POk(TrueV, j + 4)
        ELSE IF StartsAt(s, j, FalseV.s) THEN POk(FalseV, j + 5)
        ELSE IF StartsAt(s, j, NullV.s) THEN POk(NullV, j + 4)
        ELSE PFail

ParseElems(s, i, acc) ==
    LET r == ParseValue(s, i)
        k == SkipWs(s, r.n)
    IN  IF ~r.ok \/ k > Len(s) THEN PFail
        ELSE IF s[k] = "," THEN ParseElems(s, k + 1, Append(acc, r.v))
        ELSE IF s[k] = "]" THEN POk(ArrV(Append(acc, r.v)), k + 1)
        ELSE PFail

ParseMembers(s, i, acc) ==
    LET j == SkipWs(s, i)
        key == IF j <= Len(s) /\ s[j] = "\"" THEN ParseStr(s, j + 1, <<>>)
               ELSE [ok |-> FALSE, v |-> <<>>, n |-> 0]
        c == SkipWs(s, key.n)
        r == IF key.ok /\ c <= Len(s) /\ s[c] = ":" THEN ParseValue(s, c + 1) ELSE PFail
        k == SkipWs(s, r.n)
    IN  IF ~r.ok \/ k > Len(s) THEN PFail
        ELSE IF s[k] = "," THEN ParseMembers(s, k + 1, ObjSet(acc, key.v, r.v))
        ELSE IF s[k] = "}" THEN POk(ObjSet(acc, key.v, r.v), k + 1)
        ELSE PFail

\* JSON.parse: [ok, v]; ok = FALSE stands for the SyntaxError
JSONparse(s) ==
    LET r == ParseValue(s, 1)
    IN  IF r.ok /\ SkipWs(s, r.n) > Len(s) THEN [ok |-> TRUE, v |-> r.v]
        ELSE [ok |-> FALSE, v |-> NullV]

(***************************************************************************)
(* JSON.stringify (no indentation).                                        *)
(***************************************************************************)
RECURSIVE Quote(_, _)
Quote(chars, i) ==
    IF i > Len(chars) THEN <<>>
    ELSE (CASE chars[i] = "\"" -> <<"\\", "\"">>
            [] chars[i] = "\\" -> <<"\\", "\\">>
            [] chars[i] = "\n" -> <<"\\", "n">>
            [] chars[i] = "\t" -> <<"\\", "t">>
            [] chars[i] = "\r" -> <<"\\", "r">>
            [] OTHER -> <<chars[i]>>) \o Quote(chars, i + 1)

QuoteStr(chars) == <<"\"">> \o Quote(chars, 1) \o <<"\"">>

RECURSIVE JSONstringify(_), StringifyElems(_, _), StringifyMembers(_, _)
JSONstringify(val) ==
    CASE val.t = "arr" -> <<"[">> \o StringifyElems(val.c, 1) \o <<"]">>
      [] val.t = "obj" -> <<"{">> \o StringifyMembers(val, 1) \o <<"}">>
      [] val.t = "str" -> QuoteStr(val.s)
      [] OTHER -> val.s

StringifyElems(elems, i) ==
    IF i > Len(elems) THEN <<>>
    ELSE (IF i > 1 THEN <<",">> ELSE <<>>) \o JSONstringify(elems[i]) \o StringifyElems(elems, i + 1)

StringifyMembers(obj, i) ==
    IF i > Len(obj.ks) THEN <<>>
    ELSE (IF i > 1 THEN <<",">> ELSE <<>>) \o QuoteStr(obj.ks[i]) \o <<":">>
         \o JSONstringify(obj.c[i]) \o StringifyMembers(obj, i + 1)

(***************************************************************************)
(* parseResponse (src/src/vertexAi.js:213-287).                            *)
(***************************************************************************)
\* the value undefined: not a string (a string holds one-character elements)
Undefined == <<"undefined">>

\* the backtick character (written ~ here: a TLA+ string literal cannot hold a backtick)
Backtick == "~"

FenceOpen == <<Backtick, Backtick, Backtick, "j", "s", "o", "n">>

Fence == <<Backtick, Backtick, Backtick>>

NoMatch == [found |-> FALSE, g0 |-> <<>>, g1 |-> <<>>]

\* text.match of the fenced-block pattern (line 218): fence opener, whitespace,
\* lazy capture, whitespace, fence; g0 is the match, g1 the capture group
FenceMatch(text) ==
    LET opens == {p \in 1..Len(text) : StartsAt(text, p, FenceOpen)}
        p == MinOf(opens)
        from == SkipWs(text, p + Len(FenceOpen))
        closes == {q \in from..Len(text) : StartsAt(text, q, Fence)}
        q == MinOf(closes)
        e == MinOf({k \in from..q : \A m \in k..(q - 1) : text[m] \in Ws})
    IN  IF opens = {} THEN NoMatch
        ELSE IF closes = {} THEN NoMatch
        ELSE [found |-> TRUE, g0 |-> SubSeq(text, p, q + Len(Fence) - 1),
              g1 |-> SubSeq(text, from, e - 1)]

\* text.match of the bracket pattern (line 218): the leftmost [ { and, greedily,
\* everything up to the last } ]
BracketMatch(text) ==
    LET n == Len(text)
        opens == {p \in 1..n : text[p] = "[" /\ SkipWs(text, p + 1) <= n
                                /\ text[SkipWs(text, p + 1)] = "{"}
        p == MinOf(opens)
        b == SkipWs(text, p + 1)
        closes == {r \in (b + 1)..n : text[r] = "}" /\ SkipWs(text, r + 1) <= n
                                      /\ text[SkipWs(text, r + 1)] = "]"}
        r == MaxOf(closes)
    IN  IF opens = {} THEN NoMatch
        ELSE IF closes = {} THEN NoMatch
        ELSE [found |-> TRUE, g0 |-> SubSeq(text, p, SkipWs(text, r + 1)), g1 |-> <<>>]

\* jsonString.replace of every fence opener (with one following newline) and
\* of every fence by the empty string (line 223)
RECURSIVE StripFrom(_, _)
StripFrom(s, i) ==
    IF i > Len(s) THEN <<>>
    ELSE IF StartsAt(s, i, FenceOpen) THEN
        StripFrom(s, IF i + 7 <= Len(s) /\ s[i + 7] = "\n" THEN i + 8 ELSE i + 7)
    ELSE IF StartsAt(s, i, Fence) THEN StripFrom(s, i + 3)
    ELSE <<s[i]>> \o StripFrom(s, i + 1)

StripFences(s) == IF Backtick \in Range(s) THEN StripFrom(s, 1) ELSE s

\* the JSON candidate: lines 217-224
jsonCandidate(text) ==
    LET fm == FenceMatch(text)
        jsonMatch == IF fm.found THEN fm ELSE BracketMatch(text)
    IN  IF jsonMatch.found
        THEN (IF jsonMatch.g1 # <<>> THEN jsonMatch.g1 ELSE jsonMatch.g0)
        ELSE trim(StripFences(trim(text)))

kQuestions == <<"q", "u", "e", "s", "t", "i", "o", "n", "s">>

kData == <<"d", "a", "t", "a">>

kResults == <<"r", "e", "s", "u", "l", "t", "s">>

NoData == [ok |-> FALSE, data |-> <<>>]

IsArrayProp(parsed, key) == HasKey(parsed, key) /\ ObjGet(parsed, key).t = "arr"

\* the try block, lines 226-232; ok = FALSE when it throws (SyntaxError of
\* JSON.parse, or the TypeError of reading a property of null)
tryJson(jsonString) ==
    LET r == JSONparse(jsonString)
        parsed == r.v
    IN  IF ~r.ok THEN NoData
        ELSE IF parsed.t = "arr" THEN [ok |-> TRUE, data |-> parsed.c]
        ELSE IF parsed.t = "null" THEN NoData
        ELSE IF IsArrayProp(parsed, kQuestions) THEN [ok |-> TRUE, data |-> ObjGet(parsed, kQuestions).c]
        ELSE IF IsArrayProp(parsed, kData) THEN [ok |-> TRUE, data |-> ObjGet(parsed, kData).c]
        ELSE IF IsArrayProp(parsed, kResults) THEN [ok |-> TRUE, data |-> ObjGet(parsed, kResults).c]
        ELSE [ok |-> TRUE, data |-> <<parsed>>]

\* the condition of line 235
repairApplies_AnyArrayOpen(jsonString) == startsWith(jsonString, <<"[">>)

repairApplies(jsonString) == startsWith(jsonString, <<"[">>) /\ ~endsWith(jsonString, <<"]">>)

\* the inner try, lines 236-242
tryRepair(jsonString) ==
    LET lastBrace == lastIndexOf(jsonString, "}")
        fixed == SubSeq(jsonString, 1, lastBrace) \o <<"]">>
        r == JSONparse(fixed)
    IN  IF lastBrace = 0 THEN NoData
        ELSE IF ~r.ok THEN NoData
        ELSE [ok |-> TRUE, data |-> r.v.c]

standardHeaders ==
    << <<"S", ".", "N", "o">>,
       <<"Q", "u", "e", "s", "t", "i", "o", "n">>,
       <<"P", "a", "p", "e", "r">>,
       <<"S", "u", "b", "j", "e", "c", "t">>,
       <<"M", "o", "n", "t", "h", " ", "Y", "e", "a", "r">>,
       <<"T", "y", "p", "e">>,
       <<"S", "e", "c", "t", "i", "o", "n">>,
       <<"U", "n", "i", "v", "e", "r", "s", "i", "t", "y", " ", "N", "a", "m", "e">>,
       <<"C", "B", "M", "E">>,
       <<"S", "u", "p", "p", "l", "e", "m", "e", "n", "t", "a", "r", "y">> >>

kQuestion == <<"q", "u", "e", "s", "t", "i", "o", "n">>

kSNo == <<"s", ".", "n", "o">>

NonEmpty(x) == x # <<>>

HasPipe(line) == "|" \in Range(line)

\* line 249
psvLines(text) ==
    LET raw == split(trim(text), "\n")
    IN  SelectSeq([i \in 1..Len(raw) |-> trim(raw[i])], NonEmpty)

\* isHeaderLine without the keyword test: any line holding a pipe
isHeaderLine_PipeOnly(line) == includes(toLowerCase(line), <<"|">>)

\* the header test of lines 261-262
isHeaderLine(line) ==
    LET firstLine == toLowerCase(line)
    IN  includes(firstLine, <<"|">>) /\ (includes(firstLine, kQuestion) \/ includes(firstLine, kSNo))

\* line 263
headerColumns(line) ==
    LET raw == split(line, "|")
    IN  SelectSeq([i \in 1..Len(raw) |-> trim(raw[i])], NonEmpty)

\* lines 272-276: one row object from a data line
RECURSIVE FillRow(_, _, _, _)
FillRow(headers, values, index, row) ==
    IF index > Len(headers) THEN row
    ELSE FillRow(headers, values, index + 1,
                 ObjSet(row, headers[index],
                        StrV(IF index <= Len(values) THEN values[index] ELSE <<>>)))

psvRow(headers, line) ==
    LET raw == split(line, "|")
        values == [i \in 1..Len(raw) |-> trim(raw[i])]
    IN  FillRow(headers, values, 1, EmptyObj)

\* lines 248-284; ok = FALSE when no row results or the block throws
tryPsv(text) ==
    LET lines == psvLines(text)
        isHeader == isHeaderLine(lines[1])
        headers == IF isHeader THEN headerColumns(lines[1]) ELSE standardHeaders
        startIdx == IF isHeader THEN 2 ELSE 1
        dataLines == SelectSeq(SubSeq(lines, startIdx, Len(lines)), HasPipe)
        data == [i \in 1..Len(dataLines) |-> psvRow(headers, dataLines[i])]
    IN  IF Len(lines) = 0 THEN NoData
        ELSE IF Len(data) > 0 THEN [ok |-> TRUE, data |-> data]
        ELSE NoData

SnippetLen == 300

ErrEmpty == "Empty response from AI"

ErrUnparsable == "Could not parse AI response. It may be too long or truncated. Try using a shorter prompt or manually re-running this file. Raw snippet: "

\* what a call of parseResponse gives: a Dataset returned by a strategy
\* (1 JSON, 2 repair, 3 PSV) or an Error with its message and raw snippet
Returned(data, strategy) ==
    [kind |-> "data", data |-> data, err |-> "", snippet |-> <<>>, strategy |-> strategy]

Thrown(err, snippet) ==
    [kind |-> "error", data |-> <<>>, err |-> err, snippet |-> snippet, strategy |-> 0]

NoResult == [kind |-> "none", data |-> <<>>, err |-> "", snippet |-> <<>>, strategy |-> 0]

isFalsy(text) == text = <<>> \/ text = Undefined

parseResponse(text) ==
    IF isFalsy(text) THEN Thrown(ErrEmpty, <<>>)
    ELSE LET jsonString == jsonCandidate(text)
         IN  IF tryJson(jsonString).ok THEN Returned(tryJson(jsonString).data, 1)
             ELSE IF repairApplies(jsonString) /\ tryRepair(jsonString).ok
                  THEN Returned(tryRepair(jsonString).data, 2)
             ELSE IF tryPsv(text).ok THEN Returned(tryPsv(text).data, 3)
             ELSE Thrown(ErrUnparsable, substring0(text, SnippetLen))

(***************************************************************************)
(* Replies of the model.  Each reply records how the provider produced it  *)
(* (origin) next to its text: a serialised JSON value, possibly wrapped in *)
(* a fenced block or prose, or cut after cut characters by the output      *)
(* limit; a pipe-separated table; or a fixed text.                         *)
(***************************************************************************)
MaxElems == 2

MaxProps == 2

MaxLines == 2

SeqsUpTo(S, n) == UNION {[1..k -> S] : k \in 0..n}

Row(key, chars) == ObjV(<<key>>, <<StrV(chars)>>)

\* the elements arrays are built from
Elems ==
    { Row(<<"a">>, <<"1">>),
      Row(<<"b">>, <<"x", "}", "y">>),
      ObjV(<< <<"b">> >>, << Row(<<"x">>, <<"1">>) >>),
      ObjV(<< <<"a">> >>, << ArrV(<< Row(<<"b">>, <<"1">>) >>) >>),
      ArrV(<< Row(<<"a">>, <<"1">>) >>),
      StrV(<<"x">>) }

ArrayValues == {ArrV(q) : q \in SeqsUpTo(Elems, MaxElems)}

PropKeys == {kQuestions, kData, kResults, <<"n">>}

PropKinds == {"rows", "list", "empty", "str"}

PropVal(key, kind) ==
    CASE kind = "rows" -> ArrV(<< Row(<<"k">>, key) >>)
      [] kind = "list" -> ArrV(<< StrV(key) >>)
      [] kind = "empty" -> ArrV(<<>>)
      [] OTHER -> StrV(<<"x">>)

IsInjective(q) == \A i, j \in 1..Len(q) : q[i] = q[j] => i = j

ObjectValues ==
    { ObjV(ks, [i \in 1..Len(ks) |-> PropVal(ks[i], kinds[i])]) :
        <<ks, kinds>> \in { pr \in SeqsUpTo(PropKeys, MaxProps) \X SeqsUpTo(PropKinds, MaxProps) :
                              Len(pr[1]) = Len(pr[2]) /\ IsInjective(pr[1]) } }

Fenced(t) == FenceOpen \o <<"\n">> \o t \o <<"\n">> \o Fence

InProse(t) == <<"O", "K", ":", " ">> \o t \o <<" ", "e", "n", "d">>

Padded(t) == <<"\n", " ">> \o t \o <<" ", "\n">>

Wraps == {"plain", "fenced", "prose", "padded"}

Wrap(t, w) ==
    CASE w = "fenced" -> Fenced(t)
      [] w = "prose" -> InProse(t)
      [] w = "padded" -> Padded(t)
      [] OTHER -> t

Reply(family, val, wrap, cut, t) ==
    [family |-> family, val |-> val, wrap |-> wrap, cut |-> cut, text |-> t]

JsonReplies ==
    { Reply("json", v, w, 0, Wrap(JSONstringify(v), w)) : v \in ArrayValues \cup ObjectValues, w \in Wraps }

TruncatedReplies ==
    UNION { { Reply("truncated", v, "plain", k, SubSeq(JSONstringify(v), 1, k)) :
                k \in 1..(Len(JSONstringify(v)) - 1) } : v \in ArrayValues }

\* lines of pipe-separated replies: headers and data lines with and without outer
\* pipes, a line without a pipe, short and over-long lines, a data line holding
\* a header keyword, a blank line
PsvLineSet ==
    { <<"S", ".", "N", "o", " ", "|", " ", "Q", "u", "e", "s", "t", "i", "o", "n">>,
      <<"|", " ", "S", ".", "N", "o", " ", "|", " ", "Q", "u", "e", "s", "t", "i", "o", "n", " ", "|">>,
      <<"1", " ", "|", " ", "W", "h", "a", "t", " ", "i", "s", " ", "X", "?">>,
      <<"|", " ", "1", " ", "|", " ", "W", "h", "a", "t", " ", "i", "s", " ", "X", "?", " ", "|">>,
      <<"n", "o", "t", "e">>,
      <<"2", " ", "|", " ", "b", " ", "|", " ", "c">>,
      <<"1", "|", "2", "|", "3", "|", "4", "|", "5", "|", "6", "|", "7", "|", "8", "|", "9", "|", "1", "0", "|", "1", "1">>,
      <<"4", " ", "|", " ", "q", "u", "e", "s", "t", "i", "o", "n", " ", "y">>,
      <<" ", " ">> }

RECURSIVE Join(_, _)
Join(lines, i) ==
    IF i > Len(lines) THEN <<>>
    ELSE (IF i > 1 THEN <<"\n">> ELSE <<>>) \o lines[i] \o Join(lines, i + 1)

PsvReplies ==
    { Reply("psv", NullV, "plain", 0, Join(q, 1)) : q \in SeqsUpTo(PsvLineSet, MaxLines) \ {<<>>} }

\* blank replies
BlankTexts ==
    { <<>>,
      <<" ">>,
      <<"\n">>,
      <<" ", "\n", " ">> }

\* plain prose
ProseTexts ==
    { <<"h", "e", "l", "l", "o">>,
      <<"S", "o", "r", "r", "y", ",", " ", "n", "o", " ", "d", "a", "t", "a", ".">>,
      <<"n", "o", " ", "r", "o", "w", "s", "\n", "f", "o", "u", "n", "d">> }

\* prose of n characters
LongProse(n) == [i \in 1..n |-> IF i % 6 = 0 THEN " " ELSE "a"]

LongTexts == {LongProse(n) : n \in (SnippetLen - 1)..(SnippetLen + 2)}

\* JSON scalars, fence and bracket edge cases
OtherTexts ==
    { <<"n", "u", "l", "l">>,
      <<"t", "r", "u", "e">>,
      <<"4", "2">>,
      <<"\"", "a", "|", "b", "\"">>,
      <<Backtick, Backtick, Backtick, "j", "s", "o", "n", " ", " ", Backtick, Backtick, Backtick>>,
      <<Backtick, Backtick, Backtick, "\n", "[", "1", "]", "\n", Backtick, Backtick, Backtick>>,
      <<Backtick, Backtick, Backtick, "j", "s", "o", "n", " ", "x", Backtick, Backtick, Backtick, " ", "|", " ", "y">>,
      <<"[", "n", "o", "t", "e", "}", " ", "x">>,
      <<"[", "{", "\"", "a", "\"", ":", "\"", "1", "\"", "}", " ", "|", " ", "b">>,
      <<"[", "{", "\"", "a", "\"", ":", "\"", "1", "\"", "}", ",", " ", ".", ".", ".", "]">>,
      <<Backtick, Backtick, Backtick, "j", "s", "o", "n", "\n", "[", "x", "}", "\n",
        Backtick, Backtick, Backtick, "\n", "a", " ", "|", " ", "b">> }

FixedReplies ==
    { Reply("blank", NullV, "plain", 0, t) : t \in BlankTexts }
    \cup { Reply("prose", NullV, "plain", 0, t) : t \in ProseTexts \cup LongTexts }
    \cup { Reply("other", NullV, "plain", 0, t) : t \in OtherTexts }

Replies == JsonReplies \cup TruncatedReplies \cup PsvReplies \cup FixedReplies

NoReply == Reply("none", NullV, "plain", 0, <<>>)

(***************************************************************************)
(* One call of extractFromPdf or chatWithGemini.                           *)
(***************************************************************************)
VARIABLES
    pc,           \* position of the call
    mode,         \* "extract" (extractFromPdf) or "chat" (chatWithGemini)
    cred,         \* what env.GOOGLE_APPLICATION_CREDENTIALS holds
    accessToken,  \* the value getAccessToken returned
    tokenPosts,   \* POSTs sent to the token endpoint
    genPosts,     \* POSTs sent to generateContent
    bearer,       \* the token of the Authorization header of the generation POST
    trace,        \* the steps taken, in order
    origin,       \* how the provider produced the reply
    text,         \* candidates[0].content.parts[0].text
    jsonString,   \* the JSON candidate of parseResponse
    result,       \* what the call returned or threw
    entry,           \* "handler" (a route of index.js) or "direct" (the exported function)
    hasFile,         \* POST /api/extract: body.file is an uploaded File
    reqTemperature,  \* the temperature the caller selected
    messages,        \* chat history: turns [id, role, content], id the object identity
    reqAttachments,  \* attachments of the chat request
    promptContext,   \* chat context string
    temperature,     \* extractFromPdf: the temperature parameter as bound by the call
    envDefined,      \* the env parameter as bound by the call is an object
    attachments,     \* chatWithGemini: the attachments parameter
    genTemperature,  \* generationConfig.temperature of the generation POST
    contents,        \* chat: the contents array of the generation POST
    genResp,         \* the shape of the generateContent response
    tried,           \* parseResponse: the strategies attempted, in order
    psvInput         \* parseResponse: the string the pipe-table strategy split

\* what the caller sent: fixed for the whole call
request == <<entry, hasFile, reqTemperature, messages, reqAttachments, promptContext>>

\* the parameters of extractFromPdf / chatWithGemini
args == <<temperature, envDefined, attachments>>

\* the generation request and the shape of its response
sent == <<genTemperature, contents, genResp>>

\* the progress of parseResponse
attempts == <<tried, psvInput>>

vars == <<pc, mode, cred, accessToken, tokenPosts, genPosts, bearer, trace, origin, text, jsonString, result,
          request, args, sent, attempts>>

Creds == {"missing", "invalidJson", "incomplete", "badKey", "valid"}

\* bodies of the token endpoint: an access_token, an error field, neither; or
\* the fetch / response.json() itself rejects
TokenResponses == {"access_token", "error", "neither", "rejected"}

\* responses of generateContent: a non-2xx status, or a 2xx body of some shape
GenResponses == {"httpError", "noCandidates", "emptyCandidates", "noContent", "noParts",
                 "emptyParts", "noText", "text"}

NoToken == "none"

UndefinedToken == "undefined"

GoodToken == "ya29.token"

Replied(t) ==
    [kind |-> "reply", data |-> <<>>, err |-> "", snippet |-> t, strategy |-> 0]

ThrownErr(err) == Thrown(err, <<>>)

\* a JavaScript value in the temperature position: its typeof, whether it is
\* NaN, and (for a number) its value in tenths
TNumber(n) == [type |-> "number", nan |-> FALSE, tenths |-> n]

TUndefined == [type |-> "undefined", nan |-> FALSE, tenths |-> 0]

TNaN == [type |-> "number", nan |-> TRUE, tenths |-> 0]

\* a form field such as "0.5"
TString == [type |-> "string", nan |-> FALSE, tenths |-> 5]

\* the environment bindings object c.env
TEnv == [type |-> "object", nan |-> FALSE, tenths |-> 0]

NoTemperature == [type |-> "none", nan |-> FALSE, tenths |-> 0]

\* temperatures a caller can select, in tenths: below, inside and above [0, 1]
TenthsValues == {0 - 5, 0, 3, 10, 15}

Temperatures == {TUndefined, TNaN, TString} \cup {TNumber(n) : n \in TenthsValues}

\* generationConfig.temperature of extractFromPdf
generationTemperature(t) == IF t.type = "number" /\ ~t.nan THEN t ELSE TNumber(0)

\* generationConfig.temperature of chatWithGemini
ChatTemperature == TNumber(7)

\* chat turns of a request: {role, content}; id is the identity of the object,
\* the objects of one history being pairwise distinct
MaxTurns == 2

Turn(id, role, content) == [id |-> id, role |-> role, content |-> content]

Roles == {"user", "model"}

Contents == {"hello", "thanks"}

Histories ==
    UNION {{[i \in 1..n |-> Turn(i, f[i][1], f[i][2])] : f \in [1..n -> Roles \X Contents]}
           : n \in 0..MaxTurns}

Attachment(mimeType, base64) == [mimeType |-> mimeType, base64 |-> base64]

PdfAttachment == Attachment("application/pdf", "JVBERi0x")

PngAttachment == Attachment("image/png", "iVBORw0K")

\* an attachment without data
EmptyAttachment == Attachment("image/png", "")

AttachmentLists ==
    {<<>>, <<PdfAttachment>>, <<EmptyAttachment>>, <<EmptyAttachment, PdfAttachment>>,
     <<PdfAttachment, PngAttachment>>}

PromptContexts == {"", "Extract every question."}

\* the filter of /api/chat
validAttachments(atts) == SelectSeq(atts, LAMBDA att : att.mimeType # "" /\ att.base64 # "")

InlineData(att) == [mimeType |-> att.mimeType, data |-> att.base64]

ContentTurn(role, inline, txt) == [role |-> role, inline |-> inline, text |-> txt]

\* the synthetic turns that carry the prompt context
ContextTurn(ctx) ==
    ContentTurn("user", <<>>, <<"[System Context - Current Prompt]:", ctx,
                                "You are a helpful AI assistant.">>)

AckTurn == ContentTurn("model", <<>>, <<"Understood. I have the prompt context loaded. How can I help you?">>)

\* msg === messages[messages.length - 1], for the i-th message
isLastMessage_ByContent(msgs, i) ==
    /\ msgs[i].role = msgs[Len(msgs)].role
    /\ msgs[i].content = msgs[Len(msgs)].content

isLastMessage(msgs, i) == msgs[i].id = msgs[Len(msgs)].id

\* the parts of the i-th history turn that precede its text
inlineParts(msgs, atts, i) ==
    IF msgs[i].role = "user" /\ isLastMessage(msgs, i) /\ Len(atts) > 0
    THEN [k \in 1..Len(atts) |-> InlineData(atts[k])]
    ELSE <<>>

\* the contents array of chatWithGemini
chatContents(msgs, atts, ctx) ==
    (IF ctx # "" THEN <<ContextTurn(ctx), AckTurn>> ELSE <<>>)
    \o [i \in 1..Len(msgs) |-> ContentTurn(msgs[i].role, inlineParts(msgs, atts, i), <<msgs[i].content>>)]

\* the contents array of extractFromPdf: one user turn, the document first
extractContents(withPdf) ==
    <<ContentTurn("user",
                  IF withPdf THEN <<[mimeType |-> "application/pdf", data |-> "JVBERi0x"]>> ELSE <<>>,
                  <<"You are a highly strict data extraction assistant.", "prompt",
                    "CRITICAL INSTRUCTIONS">>)>>

ErrNoFile == "No file uploaded"

ErrNoMessages == "Messages array is required"

ErrEnvUndefined == "TypeError: Cannot read properties of undefined (reading 'GOOGLE_CLOUD_PROJECT')"

Init ==
    /\ entry \in {"direct", "handler"}
    /\ pc = IF entry = "handler" THEN "route" ELSE "call"
    /\ mode \in {"extract", "chat"}
    /\ IF mode = "extract"
       THEN /\ hasFile \in (IF entry = "handler" THEN BOOLEAN ELSE {TRUE})
            /\ reqTemperature \in Temperatures
            /\ messages = <<>>
            /\ reqAttachments = <<>>
            /\ promptContext = ""
       ELSE /\ hasFile = FALSE
            /\ reqTemperature = TUndefined
            /\ messages \in Histories
            /\ reqAttachments \in AttachmentLists
            /\ promptContext \in PromptContexts
    /\ temperature = IF entry = "direct" THEN reqTemperature ELSE TUndefined
    /\ envDefined = (entry = "direct")
    /\ attachments = IF entry = "direct" THEN reqAttachments ELSE <<>>
    /\ genTemperature = NoTemperature
    /\ contents = <<>>
    /\ genResp = "none"
    /\ tried = <<>>
    /\ psvInput = <<>>
    /\ cred \in Creds
    /\ accessToken = NoToken
    /\ tokenPosts = 0
    /\ genPosts = 0
    /\ bearer = NoToken
    /\ trace = <<>>
    /\ origin = NoReply
    /\ text = <<>>
    /\ jsonString = <<>>
    /\ result = NoResult

Fail(err) ==
    /\ pc' = "failed"
    /\ result' = ThrownErr(err)

\* index.js lines 64-77: POST /api/extract up to the call of extractFromPdf,
\* whose third argument is c.env and whose fourth is absent
HandleExtract ==
    /\ pc = "route"
    /\ mode = "extract"
    /\ IF ~hasFile
       THEN /\ pc' = "failed"
            /\ result' = ThrownErr(ErrNoFile)
            /\ UNCHANGED <<temperature, envDefined>>
       ELSE /\ pc' = "call"
            /\ temperature' = TEnv
            /\ envDefined' = FALSE
            /\ UNCHANGED result
    /\ UNCHANGED <<mode, cred, accessToken, tokenPosts, genPosts, bearer, trace, origin, text, jsonString,
                   request, attachments, sent, attempts>>

\* index.js lines 174-185: POST /api/chat up to the call of chatWithGemini
HandleChat ==
    /\ pc = "route"
    /\ mode = "chat"
    /\ IF Len(messages) = 0
       THEN /\ pc' = "failed"
            /\ result' = ThrownErr(ErrNoMessages)
            /\ UNCHANGED <<attachments, envDefined>>
       ELSE /\ pc' = "call"
            /\ attachments' = validAttachments(reqAttachments)
            /\ envDefined' = TRUE
            /\ UNCHANGED result
    /\ UNCHANGED <<mode, cred, accessToken, tokenPosts, genPosts, bearer, trace, origin, text, jsonString,
                   request, temperature, sent, attempts>>

\* extractFromPdf lines 52-53, chatWithGemini lines 140-141: the reads of env
ReadEnv ==
    /\ pc = "call"
    /\ IF envDefined
       THEN pc' = "start" /\ UNCHANGED result
       ELSE Fail(ErrEnvUndefined)
    /\ UNCHANGED <<mode, cred, accessToken, tokenPosts, genPosts, bearer, trace, origin, text, jsonString,
                   request, args, sent, attempts>>

\* getAccessToken, lines 4-32: read the credential and sign the assertion
SignAssertion ==
    /\ pc = "start"
    /\ trace' = Append(trace, "sign")
    /\ CASE cred = "missing" -> Fail("GOOGLE_APPLICATION_CREDENTIALS secret is missing")
         [] cred = "invalidJson" -> Fail("GOOGLE_APPLICATION_CREDENTIALS is not a valid JSON string")
         [] cred = "incomplete" -> Fail("GOOGLE_APPLICATION_CREDENTIALS must contain client_email and private_key")
         [] cred = "badKey" -> Fail("importPKCS8 rejected")
         [] OTHER -> pc' = "exchange" /\ UNCHANGED result
    /\ UNCHANGED <<mode, cred, accessToken, tokenPosts, genPosts, bearer, origin, text, jsonString,
                   request, args, sent, attempts>>

\* getAccessToken, lines 35-48: the token exchange
ExchangeToken ==
    /\ pc = "exchange"
    /\ trace' = Append(trace, "exchange")
    /\ tokenPosts' = tokenPosts + 1
    /\ \E resp \in TokenResponses :
        CASE resp = "rejected" -> Fail("fetch rejected") /\ UNCHANGED accessToken
          [] resp = "error" -> Fail("Google Auth Error") /\ UNCHANGED accessToken
          [] resp = "access_token" -> pc' = "generate" /\ accessToken' = GoodToken /\ UNCHANGED result
          [] OTHER -> pc' = "generate" /\ accessToken' = UndefinedToken /\ UNCHANGED result
    /\ UNCHANGED <<mode, cred, genPosts, bearer, origin, text, jsonString, request, args, sent, attempts>>

\* replies given to a chat call
ChatReplies == {r \in FixedReplies : r.family = "prose" /\ Len(r.text) < SnippetLen}

\* replies given to an extraction: every reply at the default temperature, the
\* fixed ones at any other
RepliesAt(t) == IF t = TUndefined THEN Replies ELSE FixedReplies

\* what the provider can answer: a request without a valid bearer token is
\* refused with a non-2xx status
GenResponsesFor(token) == IF token = GoodToken THEN GenResponses ELSE {"httpError"}

\* extractFromPdf lines 61-111, chatWithGemini lines 145-210: the generation
\* request and the reading of its response
Generate ==
    /\ pc = "generate"
    /\ trace' = Append(trace, "generate")
    /\ genPosts' = genPosts + 1
    /\ bearer' = accessToken
    /\ genTemperature' = IF mode = "extract" THEN generationTemperature(temperature) ELSE ChatTemperature
    /\ contents' = IF mode = "extract" THEN extractContents(hasFile)
                   ELSE chatContents(messages, attachments, promptContext)
    /\ \E resp \in GenResponsesFor(accessToken) :
      /\ genResp' = resp
      /\ CASE resp = "httpError" ->
                /\ Fail(IF mode = "extract" THEN "Vertex AI Error" ELSE "Gemini API Error")
                /\ UNCHANGED <<origin, text>>
          [] resp \in {"noCandidates", "emptyCandidates", "noContent"} ->
                /\ Fail(IF mode = "extract" THEN "Malformed response from Vertex AI"
                        ELSE "Malformed response from Gemini")
                /\ UNCHANGED <<origin, text>>
          [] resp \in {"noParts", "emptyParts"} ->
                /\ Fail("TypeError: Cannot read properties of undefined")
                /\ UNCHANGED <<origin, text>>
          [] resp = "noText" ->
                /\ text' = Undefined
                /\ origin' = Reply("undefined", NullV, "plain", 0, <<>>)
                /\ IF mode = "extract" THEN pc' = "parse" /\ UNCHANGED result
                   ELSE pc' = "done" /\ result' = Replied(Undefined)
          [] OTHER ->
                IF mode = "extract"
                THEN \E r \in RepliesAt(temperature) :
                        /\ origin' = r
                        /\ text' = r.text
                        /\ pc' = "parse"
                        /\ UNCHANGED result
                ELSE \E r \in ChatReplies :
                        /\ origin' = r
                        /\ text' = r.text
                        /\ pc' = "done"
                        /\ result' = Replied(r.text)
    /\ UNCHANGED <<mode, cred, accessToken, tokenPosts, jsonString, request, args, attempts>>

\* parseResponse, lines 214-232 and the test of line 235: the blank check and
\* strategy 1
ParseJson ==
    /\ pc = "parse"
    /\ trace' = Append(trace, "normalize")
    /\ IF isFalsy(text)
       THEN /\ pc' = "failed"
            /\ result' = Thrown(ErrEmpty, <<>>)
            /\ UNCHANGED <<jsonString, tried>>
       ELSE /\ jsonString' = jsonCandidate(text)
            /\ tried' = Append(tried, 1)
            /\ IF tryJson(jsonString').ok
               THEN pc' = "done" /\ result' = Returned(tryJson(jsonString').data, 1)
               ELSE /\ pc' = IF repairApplies(jsonString') THEN "repair" ELSE "psv"
                    /\ UNCHANGED result
    /\ UNCHANGED <<mode, cred, accessToken, tokenPosts, genPosts, bearer, origin, text,
                   request, args, sent, psvInput>>

\* parseResponse, lines 236-244: strategy 2
ParseRepair ==
    /\ pc = "repair"
    /\ IF tryRepair(jsonString).ok
       THEN pc' = "done" /\ result' = Returned(tryRepair(jsonString).data, 2)
       ELSE pc' = "psv" /\ UNCHANGED result
    /\ tried' = Append(tried, 2)
    /\ UNCHANGED <<mode, cred, accessToken, tokenPosts, genPosts, bearer, trace, origin, text, jsonString,
                   request, args, sent, psvInput>>

\* parseResponse, lines 248-286: strategy 3 and the final throw
ParsePsv ==
    /\ pc = "psv"
    /\ IF tryPsv(text).ok
       THEN pc' = "done" /\ result' = Returned(tryPsv(text).data, 3)
       ELSE pc' = "failed" /\ result' = Thrown(ErrUnparsable, substring0(text, SnippetLen))
    /\ tried' = Append(tried, 3)
    /\ psvInput' = text
    /\ UNCHANGED <<mode, cred, accessToken, tokenPosts, genPosts, bearer, trace, origin, text, jsonString,
                   request, args, sent>>

Next ==
    \/ HandleExtract
    \/ HandleChat
    \/ ReadEnv
    \/ SignAssertion
    \/ ExchangeToken
    \/ Generate
    \/ ParseJson
    \/ ParseRepair
    \/ ParsePsv

Spec == Init /\ [][Next]_vars

\* the stepwise call agrees with the function
ParseAgrees == pc \in {"done", "failed"} /\ "normalize" \in Range(trace) => result = parseResponse(text)

(***************************************************************************)
(* Properties.                                                             *)
(***************************************************************************)
\* an extractFromPdf call that ran parseResponse to its end
Normalized == mode = "extract" /\ pc \in {"done", "failed"} /\ "normalize" \in Range(trace)

\* C1: parseResponse never returns an empty Dataset: whenever it returns, the
\* Dataset has at least one row (otherwise it throws).
C1_NeverEmptyDataset == Normalized /\ result.kind = "data" => Len(result.data) > 0

\* a reply whose whole text is one serialised JSON value
WholeJson == origin.family = "json" /\ origin.wrap \in {"plain", "padded"}

\* C2: a reply whose whole text is a valid JSON array is returned as exactly
\* that array: same elements, same order, nested arrays included.
C2_ArrayVerbatim ==
    Normalized /\ WholeJson /\ origin.val.t = "arr"
        => result.kind = "data" /\ result.data = origin.val.c

\* the most-preferred array-valued property of an object, in the order
\* questions, data, results
Preferred(obj) ==
    IF IsArrayProp(obj, kQuestions) THEN kQuestions
    ELSE IF IsArrayProp(obj, kData) THEN kData
    ELSE kResults

HasArrayProp(obj) == \E k \in {kQuestions, kData, kResults} : IsArrayProp(obj, k)

\* C3: a reply that is a JSON object with array-valued questions / data /
\* results properties yields the array of the most-preferred one, whatever
\* the textual order of the properties.
C3_PreferenceOrder ==
    Normalized /\ WholeJson /\ origin.val.t = "obj" /\ HasArrayProp(origin.val)
        => result.kind = "data" /\ result.data = ObjGet(origin.val, Preferred(origin.val)).c

\* a reply that is a JSON array of objects cut inside its last element: the
\* cut keeps the opening brace of the last element and drops at least its
\* closing brace (and the closing bracket)
LastStart(arr) ==
    IF Len(arr.c) = 1 THEN 2
    ELSE Len(JSONstringify(ArrV(SubSeq(arr.c, 1, Len(arr.c) - 1)))) + 1

CutInLastElement ==
    /\ origin.family = "truncated"
    /\ Len(origin.val.c) >= 1
    /\ \A i \in 1..Len(origin.val.c) : origin.val.c[i].t = "obj"
    /\ origin.cut >= LastStart(origin.val)
    /\ origin.cut <= Len(JSONstringify(origin.val)) - 2

\* C4: a JSON array of objects cut in the middle of its last element yields
\* exactly the complete elements before the cut, in order, whatever the cut
\* tail holds and also when no complete element precedes it.
C4_RepairRecoversPrefix ==
    Normalized /\ CutInLastElement
        => /\ result.kind = "data"
           /\ result.data = SubSeq(origin.val.c, 1, Len(origin.val.c) - 1)

\* the index of the j-th pipe of a line (0 before the first, Len + 1 after the last)
PipeAt(line, j) ==
    LET pipes == {i \in 1..Len(line) : line[i] = "|"}
    IN  IF j = 0 THEN 0
        ELSE IF j > Cardinality(pipes) THEN Len(line) + 1
        ELSE CHOOSE p \in pipes : Cardinality({q \in pipes : q < p}) = j - 1

\* field j of a line, trimmed: the text between pipe j - 1 and pipe j, empty
\* when the line has fewer fields
FieldOf(line, j) ==
    IF j > Cardinality({i \in 1..Len(line) : line[i] = "|"}) + 1 THEN <<>>
    ELSE trim(SubSeq(line, PipeAt(line, j - 1) + 1, PipeAt(line, j) - 1))

FieldCount(line) == Cardinality({i \in 1..Len(line) : line[i] = "|"}) + 1

\* the non-blank trimmed lines of the reply, and those holding a pipe
ReplyLines == psvLines(text)

PipeLines(lines) == SelectSeq(lines, HasPipe)

\* a line that holds a pipe and a header keyword
LooksLikeHeader(line) ==
    /\ HasPipe(line)
    /\ \/ includes(toLowerCase(line), kQuestion)
       \/ includes(toLowerCase(line), kSNo)

\* parseResponse went on to the pipe-table strategy
ReachedPsv == Normalized /\ (result.strategy = 3 \/ result.err = ErrUnparsable)

\* two lines written with the same leading / trailing pipe style
SameStyle(a, b) ==
    /\ (a[1] = "|") = (b[1] = "|")
    /\ (a[Len(a)] = "|") = (b[Len(b)] = "|")

\* C5: with a header line, field j of each data line is the value of the
\* column named by field j of the header line (header and data indexed alike,
\* for lines written in the same pipe style as the header), empty when the
\* data line is shorter; fields past the header are ignored.
C5_FieldsAlignWithHeader ==
    ReachedPsv /\ Len(ReplyLines) >= 2 /\ LooksLikeHeader(ReplyLines[1])
               /\ PipeLines(Tail(ReplyLines)) # <<>>
        => LET header == ReplyLines[1]
               dataLines == PipeLines(Tail(ReplyLines))
           IN  /\ result.kind = "data"
               /\ Len(result.data) = Len(dataLines)
               /\ \A i \in 1..Len(dataLines) :
                    \A j \in 1..FieldCount(header) :
                        SameStyle(header, dataLines[i]) /\ FieldOf(header, j) # <<>>
                            => /\ HasKey(result.data[i], FieldOf(header, j))
                               /\ ObjGet(result.data[i], FieldOf(header, j))
                                    = StrV(FieldOf(dataLines[i], j))

\* C6: when the first line is not a header (it lacks a pipe or a header
\* keyword), the ten standard columns are applied by position to every line
\* holding a pipe, the first included: one Record per such line, in order.
C6_StandardSchemaEveryLine ==
    ReachedPsv /\ Len(ReplyLines) >= 1 /\ ~LooksLikeHeader(ReplyLines[1])
        => LET dataLines == PipeLines(ReplyLines)
           IN  IF dataLines = <<>> THEN result.kind = "error"
               ELSE /\ result.kind = "data"
                    /\ Len(result.data) = Len(dataLines)
                    /\ \A i \in 1..Len(dataLines) :
                        /\ result.data[i].ks = standardHeaders
                        /\ \A j \in 1..Len(standardHeaders) :
                            result.data[i].c[j] = StrV(FieldOf(dataLines[i], j))

\* C6 witness: a headerless table of two lines, each turned into a Record
C6_Witness ==
    /\ ReachedPsv
    /\ result.kind = "data"
    /\ Len(ReplyLines) = 2
    /\ ~LooksLikeHeader(ReplyLines[1])
    /\ HasPipe(ReplyLines[1])
    /\ Len(result.data) = 2

\* a blank reply: missing, empty, or whitespace only
IsBlank(t) == isFalsy(t) \/ trim(t) = <<>>

\* C7: every blank reply (empty, missing, whitespace only) fails with the
\* empty-reply error and with no other error.
C7_BlankIsEmptyReplyError ==
    Normalized /\ IsBlank(text) => result = Thrown(ErrEmpty, <<>>)

ProseChars ==
    {"a", "b", "c", "d", "e", "f", "g", "h", "i", "j", "k", "l", "m", "n", "o", "p", "q",
     "r", "s", "t", "u", "v", "w", "x", "y", "z", "S", " ", "\n", ".", ","}

\* plain prose: not blank, no pipe, no JSON (no bracket, brace, quote, digit or
\* fence, and not a JSON literal)
IsProse(t) ==
    /\ ~IsBlank(t)
    /\ Range(t) \subseteq ProseChars
    /\ trim(t) \notin {TrueV.s, FalseV.s, NullV.s}

\* C8 as stated: plain prose raises the unparsable-response error, whose
\* message carries at most the first 300 characters and never the full reply.
C8_SnippetNeverFullReply ==
    Normalized /\ IsProse(text)
        => /\ result.kind = "error"
           /\ result.err = ErrUnparsable
           /\ Len(result.snippet) <= SnippetLen
           /\ result.snippet # text

\* C8 amended: plain prose raises the unparsable-response error and returns
\* no Dataset; the message carries the first 300 characters of the reply: a
\* proper prefix of a longer reply, the whole of a reply of at most 300.
C8_SnippetIsBoundedPrefix ==
    Normalized /\ IsProse(text)
        => /\ result.kind = "error"
           /\ result.err = ErrUnparsable
           /\ result.data = <<>>
           /\ Len(result.snippet) = (IF Len(text) > SnippetLen THEN SnippetLen ELSE Len(text))
           /\ \A i \in 1..Len(result.snippet) : result.snippet[i] = text[i]

\* C8 witness: a prose reply longer than the snippet was refused
C8_Witness ==
    /\ Normalized
    /\ IsProse(text)
    /\ Len(text) > SnippetLen
    /\ result.err = ErrUnparsable

\* C9: serialising a returned Dataset and parsing it again gives the same
\* Dataset back through strategy 1.
C9_RoundTrip ==
    Normalized /\ result.kind = "data"
        => parseResponse(JSONstringify(ArrV(result.data))) = Returned(result.data, 1)

IsPrefixOf(a, b) == Len(a) <= Len(b) /\ \A i \in 1..Len(a) : a[i] = b[i]

\* C10: the steps of a call occur in the order sign, token exchange,
\* generation request, normalization; there is one token POST and at most
\* one generation POST; no generation request is sent unless the credential
\* was usable and the exchange yielded a bearer access token.
C10_CallOrderAndToken ==
    /\ IsPrefixOf(trace, <<"sign", "exchange", "generate", "normalize">>)
    /\ tokenPosts <= 1
    /\ genPosts <= 1
    /\ genPosts = 1 => tokenPosts = 1 /\ cred = "valid"
    /\ genPosts = 1 => bearer = GoodToken

\* POST /api/extract with an uploaded file has called extractFromPdf
\* under a usable credential
ExtractRouted == entry = "handler" /\ mode = "extract" /\ hasFile /\ cred = "valid" /\ pc # "route"

IsUsableNumber(t) == t.type = "number" /\ ~t.nan

\* C11: POST /api/extract with an uploaded file calls extractFromPdf with the
\* environment bindings as env and the caller's temperature as temperature:
\* the call does not fail for lack of an environment, and the temperature of
\* the generation request is the caller's.
C11_HandlerPassesEnvAndTemperature ==
    ExtractRouted
        => /\ envDefined
           /\ temperature = reqTemperature
           /\ result.err # ErrEnvUndefined
           /\ genPosts = 1 /\ IsUsableNumber(reqTemperature) => genTemperature = reqTemperature

\* a number within [0, 1]
InUnitRange(t) == IsUsableNumber(t) /\ 0 <= t.tenths /\ t.tenths <= 10

\* C12: the temperature of an extraction request is 0 when the caller
\* supplies no usable one (absent, not a number, NaN), is the caller's value
\* when that lies within [0, 1], and lies within [0, 1] in every case.
C12_TemperatureWithinUnitRange ==
    mode = "extract" /\ genPosts = 1
        => /\ ~IsUsableNumber(temperature) => genTemperature = TNumber(0)
           /\ InUnitRange(temperature) => genTemperature = temperature
           /\ InUnitRange(genTemperature)

\* a chat call has built its generation request
ChatSent == mode = "chat" /\ genPosts = 1

\* the number of synthetic turns that precede the history
SyntheticTurns == IF promptContext # "" THEN 2 ELSE 0

CarriesAttachments(turn) == Len(turn.inline) > 0

\* C13: in a chat request binary parts appear in at most one turn, the final
\* turn of the history and only when its role is user; no earlier turn, the
\* synthetic context and acknowledgment turns included, carries any, even
\* one equal in content to the last; the history follows the synthetic pair
\* in its original order with roles unchanged.
C13_AttachmentsOnlyOnFinalUserTurn ==
    ChatSent
        => /\ Len(contents) = SyntheticTurns + Len(messages)
           /\ SyntheticTurns = 2
                => /\ contents[1].role = "user" /\ ~CarriesAttachments(contents[1])
                   /\ contents[2].role = "model" /\ ~CarriesAttachments(contents[2])
           /\ \A i \in 1..Len(messages) :
                /\ contents[SyntheticTurns + i].role = messages[i].role
                /\ contents[SyntheticTurns + i].text = <<messages[i].content>>
           /\ \A k \in 1..Len(contents) :
                CarriesAttachments(contents[k])
                    => /\ k = Len(contents)
                       /\ k > SyntheticTurns
                       /\ contents[k].role = "user"
                       /\ Len(contents[k].inline) = Len(attachments)

\* C13 witness: a routed chat with context whose last user turn carries the
\* attachments while an earlier turn has the same role and content
C13_Witness ==
    /\ ChatSent
    /\ entry = "handler"
    /\ SyntheticTurns = 2
    /\ Len(messages) >= 2
    /\ messages[1].role = messages[Len(messages)].role
    /\ messages[1].content = messages[Len(messages)].content
    /\ CarriesAttachments(contents[Len(contents)])
    /\ Len(reqAttachments) > Len(attachments)

\* 2xx bodies without the candidate / content / parts / text shape
MalformedShapes == {"noCandidates", "emptyCandidates", "noContent", "noParts", "emptyParts", "noText"}

ErrMalformedResponse == IF mode = "extract" THEN "Malformed response from Vertex AI"
                        ELSE "Malformed response from Gemini"

ErrProviderRequest == IF mode = "extract" THEN "Vertex AI Error" ELSE "Gemini API Error"

\* C14: a 2xx provider response without candidates, with an empty candidate
\* list, with a first candidate without content, or with content without a
\* parts list or a first text part, ends both calls with the
\* malformed-response error, no other error and no result; a non-2xx status
\* ends them with the provider-request error and the reply is never
\* normalized.
C14_MalformedShapesRaiseMalformedError ==
    /\ genResp \in MalformedShapes /\ pc \in {"done", "failed"}
            => result = ThrownErr(ErrMalformedResponse)
    /\ genResp \in MalformedShapes \cup {"httpError"} => "normalize" \notin Range(trace)
    /\ genResp = "httpError" => pc = "failed" /\ result = ThrownErr(ErrProviderRequest)

\* the orders in which parseResponse can attempt its strategies
StrategyOrders == {<<>>, <<1>>, <<1, 2>>, <<1, 3>>, <<1, 2, 3>>}

Attempted(k) == k \in Range(tried)

\* parseResponse ran to its end on a reply that is not blank
Parsed == Normalized /\ Attempted(1)

\* C15 as stated: the strategies run in a fixed order; repair is attempted
\* exactly when the candidate of strategy 1 begins with an array-open and its
\* parse failed; the pipe-table strategy runs only after the JSON parse
\* failed and repair failed or did not apply; whenever the candidate parses,
\* to any JSON value, the result comes from strategy 1 and no later strategy
\* runs; the pipe-table strategy reads the whole original reply.
C15_RepairExactlyOnArrayOpen ==
    /\ tried \in StrategyOrders
    /\ Parsed
        => /\ Attempted(2) <=> startsWith(jsonString, <<"[">>) /\ ~JSONparse(jsonString).ok
           /\ Attempted(3) => ~JSONparse(jsonString).ok /\ result.strategy # 2
           /\ JSONparse(jsonString).ok => result.strategy = 1 /\ tried = <<1>>
           /\ Attempted(3) => psvInput = text

\* strategy 1 fails when the candidate does not parse, or parses to null
JsonFailed == ~JSONparse(jsonString).ok \/ JSONparse(jsonString).v = NullV

\* C15 amended: the strategies run in a fixed order; repair is attempted
\* exactly when strategy 1 failed on a candidate that begins with an
\* array-open and does not end with an array-close; strategy 1 fails when
\* the candidate does not parse or parses to null; the pipe-table strategy
\* runs exactly when strategy 1 failed and repair was not attempted or
\* failed; whenever the candidate parses to a value other than null the
\* result comes from strategy 1 and no later strategy runs; the pipe-table
\* strategy reads the whole original reply.
C15_RepairOnOpenUnclosedArray ==
    /\ tried \in StrategyOrders
    /\ Parsed
        => /\ Attempted(2) <=> /\ JsonFailed
                               /\ startsWith(jsonString, <<"[">>)
                               /\ ~endsWith(jsonString, <<"]">>)
           /\ Attempted(3) <=> JsonFailed /\ result.strategy # 2
           /\ ~JsonFailed => result.strategy = 1 /\ tried = <<1>>
           /\ Attempted(3) => psvInput = text

\* C15 witness: all three strategies ran on a fenced reply and the
\* pipe-table strategy found its row outside the candidate
C15_Witness ==
    /\ Parsed
    /\ tried = <<1, 2, 3>>
    /\ jsonString # trim(text)
    /\ psvInput = text
    /\ result.strategy = 3

\* a Record: column names to string values
IsRecord(v) == v.t = "obj" /\ \A i \in 1..Len(v.c) : v.c[i].t = "str"

Columns(v) == Range(v.ks)

\* C16: every Dataset returned, by the JSON, the repair or the pipe-table
\* path, is a sequence of uniform Records: each element maps column names to
\* string values (never a bare number, string, boolean, null or array) and
\* all Records of one Dataset have the same column set.
C16_DatasetOfUniformRecords ==
    Normalized /\ result.kind = "data"
        => /\ \A i \in 1..Len(result.data) : IsRecord(result.data[i])
           /\ \A i, j \in 1..Len(result.data) : Columns(result.data[i]) = Columns(result.data[j])

====
